---- MODULE Spec2Model ----
(***************************************************************************)
(* forgi topology tools: the loop collapser of topo/RNA_visulize.py        *)
(* (filter_internal_loops) and the longest-path search of                  *)
(* topo/RNA_longest.py (parse_graph_with_bases,                            *)
(* find_longest_path_by_edges, find_longest_path_by_bases, __main__).      *)
(*                                                                         *)
(* A Python str is a sequence of one-character strings, so that strip,     *)
(* startswith, `in`, the regular expressions, the f-string and "\n".join   *)
(* are computed character by character.                                    *)
(***************************************************************************)
EXTENDS Integers, Sequences, FiniteSets, TLC

\* ---------------------------------------------------------------- bounds

\* Longest input text, in lines.
MaxLines == 4
\* Most nodes of a graph handed to the path search.
MaxNodes == 4
\* Largest base count of a labelled node.
MaxBases == 1

\* ------------------------------------------------------------ characters

Min(S) == CHOOSE x \in S : \A y \in S : x <= y
Max(S) == CHOOSE x \in S : \A y \in S : x >= y

\* \s of re, and what str.strip removes (a line holds no line break).
IsSpace(c) == c \in {" ", "\t", "\n"}

\* \d of re.
IsDigit(c) == c \in {"0", "1", "2", "3", "4", "5", "6", "7", "8", "9"}

DigitVal(c) ==
  CASE c = "0" -> 0 [] c = "1" -> 1 [] c = "2" -> 2 [] c = "3" -> 3
    [] c = "4" -> 4 [] c = "5" -> 5 [] c = "6" -> 6 [] c = "7" -> 7
    [] c = "8" -> 8 [] c = "9" -> 9

\* First index >= k of s that holds no whitespace; Len(s) + 1 when none.
RECURSIVE SkipSpace(_, _)
SkipSpace(s, k) ==
  IF k > Len(s) \/ ~IsSpace(s[k]) THEN k ELSE SkipSpace(s, k + 1)

\* Last index of the run of non-whitespace (\S+, greedy) that starts at k;
\* k - 1 when the run is empty.
RECURSIVE RunEnd(_, _)
RunEnd(s, k) ==
  IF k > Len(s) \/ IsSpace(s[k]) THEN k - 1 ELSE RunEnd(s, k + 1)

\* Last index <= k of s that holds no whitespace; 0 when none.
RECURSIVE SkipSpaceBack(_, _)
SkipSpaceBack(s, k) ==
  IF k = 0 \/ ~IsSpace(s[k]) THEN k ELSE SkipSpaceBack(s, k - 1)

\* str.strip()
strip(s) ==
  LET p == SkipSpace(s, 1)
      q == SkipSpaceBack(s, Len(s))
  IN IF p > Len(s) THEN <<>> ELSE SubSeq(s, p, q)

\* str.startswith(prefix)
startswith(s, prefix) ==
  Len(s) >= Len(prefix) /\ SubSeq(s, 1, Len(prefix)) = prefix

\* `sub in s` for strings
contains(s, sub) ==
  \E k \in 1..(Len(s) - Len(sub) + 1) : SubSeq(s, k, k + Len(sub) - 1) = sub

\* The literals of the dialect.
GraphOpen == <<"g", "r", "a", "p", "h", " ", "G", " ", "{">>
CloseBrace == <<"}">>
NodeOpen == <<"{", "n", "o", "d", "e">>
LoopLabel == <<"l", "a", "b", "e", "l", "=", "\"", "i">>

NoMatch == <<>>

\* re.match(r'\s*(\S+)\s--\s(\S+);', line).groups(), or NoMatch.
\* Group 1 is the first run of non-whitespace; one whitespace character,
\* "--" and one whitespace character follow; group 2 is the next run of
\* non-whitespace cut before its last ";" (greedy \S+, then backtracking).
edge_match(line) ==
  LET n == Len(line)
      p == SkipSpace(line, 1)
      q == RunEnd(line, p)
      r == q + 5
      e == RunEnd(line, r)
      semis == {k \in (r + 1)..e : line[k] = ";"}
  IN IF /\ q >= p
        /\ q + 4 <= n
        /\ IsSpace(line[q + 1])
        /\ line[q + 2] = "-"
        /\ line[q + 3] = "-"
        /\ IsSpace(line[q + 4])
        /\ semis # {}
     THEN <<SubSeq(line, p, q), SubSeq(line, r, Max(semis) - 1)>>
     ELSE NoMatch

\* 'i' in node
has_i(node) == \E k \in 1..Len(node) : node[k] = "i"


\* ------------------------------------------------ filter_internal_loops

\* The loop-node declarations the first pass removes:
\* line.strip().startswith("{node") and 'label="i' in line
is_loop_declaration(line) ==
  startswith(strip(line), NodeOpen) /\ contains(line, LoopLabel)

drop_loop_declarations(lines) ==
  SelectSeq(lines, LAMBDA line : ~is_loop_declaration(line))

\* node_connections.setdefault(node, []).append(neighbor): a dict keeps its
\* keys in first-insertion order; it is held as a sequence of entries.
connect(node_connections, node, neighbor) ==
  IF \E k \in 1..Len(node_connections) : node_connections[k].node = node
  THEN [k \in 1..Len(node_connections) |->
          IF node_connections[k].node = node
          THEN [node_connections[k] EXCEPT
                  !.neighbors = Append(@, neighbor)]
          ELSE node_connections[k]]
  ELSE Append(node_connections, [node |-> node, neighbors |-> <<neighbor>>])

ScanStart ==
  [inside_graph |-> FALSE, edge_lines |-> <<>>,
   node_connections |-> <<>>, filtered_lines |-> <<>>]

\* One pass of the body of `for line in lines`.
scan_line(st, line) ==
  LET stripped_line == strip(line)
  IN IF startswith(stripped_line, GraphOpen)
     THEN [st EXCEPT !.inside_graph = TRUE,
                     !.filtered_lines = Append(@, line)]
     ELSE
       LET inside == IF stripped_line = CloseBrace
                     THEN FALSE ELSE st.inside_graph
           m == edge_match(line)
       IN IF inside /\ m # NoMatch
          THEN IF has_i(m[1])
               THEN [st EXCEPT !.inside_graph = inside,
                       !.node_connections = connect(@, m[1], m[2])]
               ELSE IF has_i(m[2])
               THEN [st EXCEPT !.inside_graph = inside,
                       !.node_connections = connect(@, m[2], m[1])]
               ELSE [st EXCEPT !.inside_graph = inside,
                       !.edge_lines = Append(@, <<m[1], m[2]>>)]
          ELSE [st EXCEPT !.inside_graph = inside,
                          !.filtered_lines = Append(@, line)]

RECURSIVE scan_lines(_, _)
scan_lines(st, lines) ==
  IF lines = <<>> THEN st
  ELSE scan_lines(scan_line(st, Head(lines)), Tail(lines))

\* for i in range(len(neighbors)): for j in range(i + 1, len(neighbors)):
\* the pairs (neighbors[i], neighbors[j]) from position i on, in loop order.
RECURSIVE neighbor_pairs(_, _, _)
neighbor_pairs(neighbors, i, j) ==
  IF i > Len(neighbors) THEN <<>>
  ELSE IF j > Len(neighbors) THEN neighbor_pairs(neighbors, i + 1, i + 2)
  ELSE <<(<<neighbors[i], neighbors[j]>>)>>
         \o neighbor_pairs(neighbors, i, j + 1)

\* A slip in the inner range: only neighbors next to each other are joined.
clique_consecutive(neighbors) ==
  [k \in 1..(Len(neighbors) - 1) |-> <<neighbors[k], neighbors[k + 1]>>]

\* The edges one intermediate's neighbor list expands to.
clique(neighbors) == neighbor_pairs(neighbors, 1, 2)

\* "Replace intermediate 'i' nodes with direct connections": the direct
\* edges followed by every intermediate's pairs.
RECURSIVE expand_intermediates(_, _)
expand_intermediates(edges, node_connections) ==
  IF node_connections = <<>> THEN edges
  ELSE expand_intermediates(
         edges \o clique(Head(node_connections).neighbors),
         Tail(node_connections))

\* set(edge_lines): a set of (a, b) tuples; (a, b) and (b, a) are two members.
edge_set(edges) == {edges[k] : k \in 1..Len(edges)}

\* list(set(...)): the iteration order of a set of tuples of str follows the
\* strings' hashes, which the interpreter salts per process; every order of
\* the members is an outcome.
RECURSIVE Enumerations(_)
Enumerations(S) ==
  IF S = {} THEN {<<>>}
  ELSE UNION {{<<x>> \o rest : rest \in Enumerations(S \ {x})} : x \in S}

\* int(digits)
RECURSIVE int(_)
int(digits) ==
  IF digits = <<>> THEN 0
  ELSE 10 * int(SubSeq(digits, 1, Len(digits) - 1))
         + DigitVal(digits[Len(digits)])

Finite(n) == [inf |-> FALSE, val |-> n]
\* float('inf')
Infinity == [inf |-> TRUE, val |-> 0]

\* int(re.search(r'\d+', node).group()) if re.search(r'\d+', node)
\* else float('inf')
numeric(node) ==
  LET digits == {k \in 1..Len(node) : IsDigit(node[k])}
  IN IF digits = {} THEN Infinity
     ELSE LET from == Min(digits)
              to == Max({e \in from..Len(node) :
                           \A j \in from..e : IsDigit(node[j])})
          IN Finite(int(SubSeq(node, from, to)))

\* A slip in the key: the first endpoint read twice.
sort_key_first_only(edge) == <<numeric(edge[1]), numeric(edge[1])>>

sort_key(edge) == <<numeric(edge[1]), numeric(edge[2])>>

\* x < y on int and float('inf')
num_lt(x, y) == ~x.inf /\ (y.inf \/ x.val < y.val)

\* tuple comparison of two keys
key_lt(k1, k2) == num_lt(k1[1], k2[1]) \/ (k1[1] = k2[1] /\ num_lt(k1[2], k2[2]))

\* list.sort(key=sort_key) is stable: an element goes before the first
\* element whose key is greater than its own.
insert_sorted(sorted, edge) ==
  LET later == {k \in 1..Len(sorted) :
                  key_lt(sort_key(edge), sort_key(sorted[k]))}
      at == IF later = {} THEN Len(sorted) + 1 ELSE Min(later)
  IN SubSeq(sorted, 1, at - 1) \o <<edge>> \o SubSeq(sorted, at, Len(sorted))

RECURSIVE sort_edges(_)
sort_edges(edges) ==
  IF edges = <<>> THEN <<>>
  ELSE insert_sorted(sort_edges(SubSeq(edges, 1, Len(edges) - 1)),
                     edges[Len(edges)])

\* f"    {a} -- {b};\n"
format_edge(edge) ==
  <<" ", " ", " ", " ">> \o edge[1] \o <<" ", "-", "-", " ">> \o edge[2]
    \o <<";", "\n">>

\* "\n".join(parts)
RECURSIVE join(_)
join(parts) ==
  IF parts = <<>> THEN <<>>
  ELSE IF Len(parts) = 1 THEN parts[1]
  ELSE parts[1] \o <<"\n">> \o join(Tail(parts))

\* filtered_lines[:-1]
all_but_last(lines) == SubSeq(lines, 1, Len(lines) - 1)

\* "\n".join(filtered_lines[:-1] + sorted_edge_lines + ["}"])
assemble(filtered_lines, sorted_edges) ==
  join(all_but_last(filtered_lines)
         \o [k \in 1..Len(sorted_edges) |-> format_edge(sorted_edges[k])]
         \o <<CloseBrace>>)

\* filter_internal_loops(graph_output) up to the set of edges:
\* the lines kept and set(edge_lines).
collect(lines) ==
  LET st == scan_lines(ScanStart, drop_loop_declarations(lines))
  IN [filtered_lines |-> st.filtered_lines,
      edges |-> edge_set(expand_intermediates(st.edge_lines,
                                              st.node_connections))]

\* filter_internal_loops(graph_output) from list(set(edge_lines)) on,
\* `enumeration` being the order in which the list holds the set. The sorted
\* edge list is kept beside the returned text.
filter_internal_loops(collected, enumeration) ==
  LET sorted == sort_edges(enumeration)
  IN [edge_lines |-> sorted,
      final_output |-> assemble(collected.filtered_lines, sorted)]


\* ------------------------------------------------------- the graph search

\* An nx.Graph: its nodes in first-insertion order (graph.nodes iterates in
\* that order) and its edges as unordered pairs. Self-loops are left out:
\* no shortest path between two distinct nodes uses one.
node_set(graph) == {graph.nodes[k] : k \in 1..Len(graph.nodes)}

adjacent(graph, u) == {v \in node_set(graph) : {u, v} \in graph.edges}

\* Breadth-first distance from the frontier to target; -1 when target is not
\* reachable (nx.NetworkXNoPath).
RECURSIVE bfs_distance(_, _, _, _, _)
bfs_distance(graph, frontier, seen, target, d) ==
  IF target \in frontier THEN d
  ELSE IF frontier = {} THEN -1
  ELSE LET next == (UNION {adjacent(graph, u) : u \in frontier}) \ seen
       IN bfs_distance(graph, next, seen \cup next, target, d + 1)

distance(graph, source, target) ==
  bfs_distance(graph, {source}, {source}, target, 0)

\* Every path from source to target of exactly d edges that is a shortest one.
RECURSIVE paths_of_length(_, _, _, _)
paths_of_length(graph, source, target, d) ==
  IF d = 0 THEN (IF source = target THEN {<<source>>} ELSE {})
  ELSE UNION {{<<source>> \o rest :
                 rest \in paths_of_length(graph, w, target, d - 1)} :
              w \in {x \in adjacent(graph, source) :
                       distance(graph, x, target) = d - 1}}

\* nx.shortest_path(graph, source=, target=, weight=None, method="dijkstra"):
\* with weight=None the library runs an unweighted search and returns one
\* path with the fewest edges; which one, when several exist, is the
\* library's choice, so every one of them is an outcome. The empty set
\* stands for nx.NetworkXNoPath.
shortest_path(graph, source, target) ==
  LET d == distance(graph, source, target)
  IN IF d < 0 THEN {} ELSE paths_of_length(graph, source, target, d)

\* base_counts.get(n, 0)
get(base_counts, n) ==
  IF n \in DOMAIN base_counts THEN base_counts[n] ELSE 0

\* sum(base_counts.get(n, 0) for n in path)
RECURSIVE sum_bases(_, _)
sum_bases(base_counts, path) ==
  IF path = <<>> THEN 0
  ELSE get(base_counts, Head(path)) + sum_bases(base_counts, Tail(path))

\* if len(path) > max_length
longer(path, max_length) == Len(path) > max_length

\* if base_sum > max_bases
more_bases(base_sum, max_bases) == base_sum > max_bases

\* A slip in the return: the node count handed back as the edge count.
edges_result_nodes(longest_path, max_length) == <<longest_path, max_length>>

\* return longest_path, max_length - 1
edges_result(longest_path, max_length) == <<longest_path, max_length - 1>>

\* return longest_path, max_bases
bases_result(longest_path, max_bases) == <<longest_path, max_bases>>

\* ------------------------------------------------------------------ state

VARIABLES
  pc,             \* where the running tool stands
  graph_output,   \* filter_internal_loops' argument, as splitlines() gives it
  edge_lines,     \* edge_lines after the sort, first run
  final_output,   \* the text the first run returns
  rerun_output,   \* the text a second run on the same argument returns
  graph,          \* the nx.Graph handed to the search
  base_counts,    \* node -> base count, for the labelled nodes
  node,           \* position of the outer loop in graph.nodes
  target,         \* position of the inner loop in graph.nodes
  longest_path,
  max_length,
  max_bases,
  result,         \* the tuple the search returned
  first_max       \* history: the first visited pair's path among those of
                  \* the greatest metric seen so far, and that metric

vars == <<pc, graph_output, edge_lines, final_output, rerun_output, graph,
          base_counts, node, target, longest_path, max_length, max_bases,
          result, first_max>>

collapse_vars == <<graph_output, edge_lines, final_output, rerun_output>>
search_vars == <<graph, base_counts, node, target, longest_path, max_length,
                 max_bases, result, first_max>>

\* ----------------------------------------------------------------- inputs

Indent == <<" ", " ", " ", " ">>
edge_text(indent, a, b) == indent \o a \o <<" ", "-", "-", " ">> \o b \o <<";">>

n1 == <<"n", "1">>
n10 == <<"n", "1", "0">>
m1 == <<"m", "1">>
i1 == <<"i", "1">>
i2 == <<"i", "2">>
h == <<"h">>

\* {node [label="i"] i1};
LoopDeclaration ==
  NodeOpen \o <<" ", "[">> \o LoopLabel \o <<"\"", "]", " ">> \o i1
    \o <<"}", ";">>

\* sep=1;
Directive == <<"s", "e", "p", "=", "1", ";">>

\* The edge lines a text may hold: an edge written in both directions, one
\* of them unindented; two edges of equal sort key; an intermediate as first
\* and as second endpoint; an endpoint without digits; an edge between two
\* ids that both contain "i".
EdgeTexts ==
  { edge_text(Indent, n1, n10), edge_text(<<>>, n10, n1),
    edge_text(Indent, m1, n10), edge_text(Indent, i1, n1),
    edge_text(Indent, h, i1), edge_text(Indent, i1, i2) }

InputLines == {GraphOpen, CloseBrace, LoopDeclaration, Directive} \cup EdgeTexts

Texts == UNION {[1..n -> InputLines] : n \in 0..MaxLines}

Pairs(n) == {{u, v} : u, v \in 1..n} \ {{u} : u \in 1..n}

Graphs ==
  UNION {{[nodes |-> [k \in 1..n |-> k], edges |-> E] :
            E \in SUBSET Pairs(n)} : n \in 0..MaxNodes}

\* The weight tables of graph g: any subset of its nodes labelled.
BaseCounts(g) ==
  UNION {[D -> 0..MaxBases] : D \in SUBSET node_set(g)}

NoGraph == [nodes |-> <<>>, edges |-> {}]
NoPair == [path |-> <<>>, metric |-> 0]

\* ---------------------------------------------------------- initial states

CollapseIdle ==
  /\ graph_output = <<>>
  /\ edge_lines = <<>>
  /\ final_output = <<>>
  /\ rerun_output = <<>>

SearchStart ==
  /\ node = 1
  /\ target = 1
  /\ longest_path = <<>>
  /\ max_length = 0
  /\ max_bases = 0
  /\ result = <<>>
  /\ first_max = NoPair

\* generate_rna_graph(..., simple=True) hands the converter's text to
\* filter_internal_loops.
InitCollapse ==
  /\ pc = "collapse"
  /\ graph_output \in Texts
  /\ edge_lines = <<>>
  /\ final_output = <<>>
  /\ rerun_output = <<>>
  /\ graph = NoGraph
  /\ base_counts = <<>>
  /\ SearchStart

\* __main__ without --base
InitEdges ==
  /\ pc = "by_edges"
  /\ graph \in Graphs
  /\ base_counts = <<>>
  /\ SearchStart
  /\ CollapseIdle

\* __main__ with --base
InitBases ==
  /\ pc = "by_bases"
  /\ graph \in Graphs
  /\ base_counts \in BaseCounts(graph)
  /\ SearchStart
  /\ CollapseIdle

Init == InitCollapse \/ InitEdges \/ InitBases

\* ---------------------------------------------------------------- actions

\* filter_internal_loops(graph_output), whole.
Collapse ==
  /\ pc = "collapse"
  /\ LET collected == collect(graph_output)
     IN \E enumeration \in Enumerations(collected.edges) :
          LET r == filter_internal_loops(collected, enumeration)
          IN /\ edge_lines' = r.edge_lines
             /\ final_output' = r.final_output
  /\ pc' = "collapsed"
  /\ UNCHANGED <<graph_output, rerun_output>>
  /\ UNCHANGED search_vars

\* The same call once more, in a process of its own.
Recollapse ==
  /\ pc = "collapsed"
  /\ LET collected == collect(graph_output)
     IN \E enumeration \in Enumerations(collected.edges) :
          rerun_output' =
            filter_internal_loops(collected, enumeration).final_output
  /\ pc' = "recollapsed"
  /\ UNCHANGED <<graph_output, edge_lines, final_output>>
  /\ UNCHANGED search_vars

\* The loops `for node in graph.nodes: for target in graph.nodes:` move on.
advance ==
  IF target < Len(graph.nodes)
  THEN /\ target' = target + 1
       /\ node' = node
  ELSE /\ target' = 1
       /\ node' = node + 1

in_loop == node <= Len(graph.nodes)

\* The pair just visited had `path` of `metric`: the history of the first
\* pair of the greatest metric so far.
seen(path, metric) ==
  IF first_max.path = <<>> \/ metric > first_max.metric
  THEN [path |-> path, metric |-> metric]
  ELSE first_max

\* if node != target: false
EdgesSame ==
  /\ pc = "by_edges"
  /\ in_loop
  /\ graph.nodes[node] = graph.nodes[target]
  /\ advance
  /\ UNCHANGED <<pc, graph, base_counts, longest_path, max_length, max_bases,
                 result, first_max>>
  /\ UNCHANGED collapse_vars

\* except nx.NetworkXNoPath: continue
EdgesNoPath ==
  /\ pc = "by_edges"
  /\ in_loop
  /\ graph.nodes[node] # graph.nodes[target]
  /\ shortest_path(graph, graph.nodes[node], graph.nodes[target]) = {}
  /\ advance
  /\ UNCHANGED <<pc, graph, base_counts, longest_path, max_length, max_bases,
                 result, first_max>>
  /\ UNCHANGED collapse_vars

\* A path was found: kept when it is longer than the longest so far.
EdgesPath ==
  /\ pc = "by_edges"
  /\ in_loop
  /\ graph.nodes[node] # graph.nodes[target]
  /\ \E path \in shortest_path(graph, graph.nodes[node], graph.nodes[target]) :
       /\ IF longer(path, max_length)
          THEN /\ longest_path' = path
               /\ max_length' = Len(path)
          ELSE UNCHANGED <<longest_path, max_length>>
       /\ first_max' = seen(path, Len(path) - 1)
  /\ advance
  /\ UNCHANGED <<pc, graph, base_counts, max_bases, result>>
  /\ UNCHANGED collapse_vars

EdgesReturn ==
  /\ pc = "by_edges"
  /\ ~in_loop
  /\ result' = edges_result(longest_path, max_length)
  /\ pc' = "edges_returned"
  /\ UNCHANGED <<graph, base_counts, node, target, longest_path, max_length,
                 max_bases, first_max>>
  /\ UNCHANGED collapse_vars

BasesSame ==
  /\ pc = "by_bases"
  /\ in_loop
  /\ graph.nodes[node] = graph.nodes[target]
  /\ advance
  /\ UNCHANGED <<pc, graph, base_counts, longest_path, max_length, max_bases,
                 result, first_max>>
  /\ UNCHANGED collapse_vars

BasesNoPath ==
  /\ pc = "by_bases"
  /\ in_loop
  /\ graph.nodes[node] # graph.nodes[target]
  /\ shortest_path(graph, graph.nodes[node], graph.nodes[target]) = {}
  /\ advance
  /\ UNCHANGED <<pc, graph, base_counts, longest_path, max_length, max_bases,
                 result, first_max>>
  /\ UNCHANGED collapse_vars

\* A path was found: kept when its bases sum to more than the most so far.
BasesPath ==
  /\ pc = "by_bases"
  /\ in_loop
  /\ graph.nodes[node] # graph.nodes[target]
  /\ \E path \in shortest_path(graph, graph.nodes[node], graph.nodes[target]) :
       LET base_sum == sum_bases(base_counts, path)
       IN /\ IF more_bases(base_sum, max_bases)
             THEN /\ longest_path' = path
                  /\ max_bases' = base_sum
             ELSE UNCHANGED <<longest_path, max_bases>>
          /\ first_max' = seen(path, base_sum)
  /\ advance
  /\ UNCHANGED <<pc, graph, base_counts, max_length, result>>
  /\ UNCHANGED collapse_vars

BasesReturn ==
  /\ pc = "by_bases"
  /\ ~in_loop
  /\ result' = bases_result(longest_path, max_bases)
  /\ pc' = "bases_returned"
  /\ UNCHANGED <<graph, base_counts, node, target, longest_path, max_length,
                 max_bases, first_max>>
  /\ UNCHANGED collapse_vars

\* __main__: print(f"{longest_path[0]} ~ {longest_path[-1]}") and the two
\* prints after it; indexing an empty list raises IndexError.
Main ==
  /\ pc \in {"edges_returned", "bases_returned"}
  /\ pc' = IF result[1] = <<>> THEN "IndexError" ELSE "printed"
  /\ UNCHANGED search_vars
  /\ UNCHANGED collapse_vars

NextCollapse == Collapse \/ Recollapse
NextEdges == EdgesSame \/ EdgesNoPath \/ EdgesPath \/ EdgesReturn \/ Main
NextBases == BasesSame \/ BasesNoPath \/ BasesPath \/ BasesReturn \/ Main
Next == NextCollapse \/ NextEdges \/ NextBases

SpecCollapse == InitCollapse /\ [][NextCollapse]_vars
SpecEdges == InitEdges /\ [][NextEdges]_vars
SpecBases == InitBases /\ [][NextBases]_vars
SpecSearch == (InitEdges \/ InitBases) /\ [][NextEdges \/ NextBases]_vars
Spec == Init /\ [][Next]_vars


\* ------------------------------------------------------ parse_graph_with_bases

\* file.readlines(): the text cut at its line breaks.
RECURSIVE readlines(_)
readlines(text) ==
  IF text = <<>> THEN <<>>
  ELSE LET breaks == {k \in 1..Len(text) : text[k] = "\n"}
       IN IF breaks = {} THEN <<text>>
          ELSE <<SubSeq(text, 1, Min(breaks) - 1)>>
                 \o readlines(SubSeq(text, Min(breaks) + 1, Len(text)))

\* The edge rule of parse_graph_with_bases: G.add_edge(node_a.strip(),
\* node_b.strip()) for every line the edge pattern matches; the edges of an
\* nx.Graph are unordered.
parse_edges(text) ==
  LET lines == readlines(text)
  IN {{strip(edge_match(lines[k])[1]), strip(edge_match(lines[k])[2])} :
        k \in {j \in 1..Len(lines) : edge_match(lines[j]) # NoMatch}}

\* -------------------------------------------------- what the claims speak of

\* The first run has returned (the second leaves what it returned alone).
collapsed == pc = "collapsed"
returned == pc \in {"edges_returned", "bases_returned"}

unordered(edge) == {edge[1], edge[2]}

is_edge_line(line) == edge_match(line) # NoMatch
is_open_line(line) == startswith(strip(line), GraphOpen)
is_close_line(line) == strip(line) = CloseBrace

\* Line k of text lies inside the graph block: a `graph G {` line precedes
\* it with no `}` line in between.
in_block(text, k) ==
  \E j \in 1..(k - 1) :
    /\ is_open_line(text[j])
    /\ \A m \in (j + 1)..(k - 1) : ~is_close_line(text[m])

\* The lines of text at the positions that satisfy Keep, in order.
select_lines(text, Keep(_)) ==
  LET at == SelectSeq([k \in 1..Len(text) |-> k], Keep)
  IN [j \in 1..Len(at) |-> text[at[j]]]

is_block_edge(text, k) ==
  /\ ~is_loop_declaration(text[k])
  /\ is_edge_line(text[k])
  /\ in_block(text, k)

\* The edges (a, b) of the graph block, in text order.
block_edges(text) ==
  LET lines == select_lines(text, LAMBDA k : is_block_edge(text, k))
  IN [j \in 1..Len(lines) |-> edge_match(lines[j])]

\* The deduplicated union of the direct edges of the graph block and, for
\* every intermediate, the pairs of its neighbors: two edge lines j < k with
\* the same intermediate give the pair of their other endpoints.
expected_edges(text) ==
  LET M == block_edges(text)
      loops == {j \in 1..Len(M) : has_i(M[j][1]) \/ has_i(M[j][2])}
      inter(e) == IF has_i(e[1]) THEN e[1] ELSE e[2]
      outer(e) == IF has_i(e[1]) THEN e[2] ELSE e[1]
      direct == {unordered(M[j]) : j \in (1..Len(M)) \ loops}
      cliques == {{outer(M[p[1]]), outer(M[p[2]])} :
                    p \in {q \in loops \X loops :
                             q[1] < q[2] /\ inter(M[q[1]]) = inter(M[q[2]])}}
  IN direct \cup cliques

\* Every line the edge rule matches lies inside the graph block and is no
\* loop-node declaration.
edges_all_in_block(text) ==
  \A k \in 1..Len(text) : is_edge_line(text[k]) => is_block_edge(text, k)

\* The input lines that are neither a loop-node declaration, nor an edge
\* line of the graph block, nor a closing brace line.
pass_through(text) ==
  select_lines(text, LAMBDA k : /\ ~is_loop_declaration(text[k])
                                /\ ~is_block_edge(text, k)
                                /\ ~is_close_line(text[k]))

\* The number of an endpoint as the claims word it: the value of its first
\* run of decimal digits, or none.
RECURSIVE leading_value(_, _)
leading_value(s, acc) ==
  IF s = <<>> \/ ~IsDigit(Head(s)) THEN acc
  ELSE leading_value(Tail(s), 10 * acc + DigitVal(Head(s)))

RECURSIVE first_number(_)
first_number(id) ==
  IF id = <<>> THEN [digits |-> FALSE, value |-> 0]
  ELSE IF IsDigit(Head(id)) THEN [digits |-> TRUE, value |-> leading_value(id, 0)]
  ELSE first_number(Tail(id))

\* x <= y, an endpoint without digits counting as +infinity.
number_leq(x, y) == ~y.digits \/ (x.digits /\ x.value <= y.value)

\* (numA, numB) of e is at most that of f.
key_leq(e, f) ==
  LET a == first_number(e[1])
      b == first_number(f[1])
  IN /\ number_leq(a, b)
     /\ number_leq(b, a) => number_leq(first_number(e[2]), first_number(f[2]))

\* Line k of the n edge lines that end the text `out`: each is followed by
\* the empty line its own line break leaves, and the closing brace ends all.
emitted_line(out, n, k) == out[Len(out) - 2 * (n - k) - 2]

connected_pair(g, u, v) == u # v /\ distance(g, u, v) >= 0

some_pair_connected(g) ==
  \E u, v \in node_set(g) : connected_pair(g, u, v)

is_tree(g) ==
  /\ \A u, v \in node_set(g) : distance(g, u, v) >= 0
  /\ Cardinality(g.edges) = Len(g.nodes) - 1

diameter(g) == Max({distance(g, u, v) : u, v \in node_set(g)})

\* ----------------------------------------------------------------- claims

\* C1: the emitted edge list never holds two entries that are equal as
\* unordered pairs {A, B}; a text with `A -- B;` and `B -- A;` in its graph
\* block yields one edge line between A and B.
C1_NoUnorderedDuplicate ==
  collapsed =>
    \A j, k \in 1..Len(edge_lines) :
      j < k => unordered(edge_lines[j]) # unordered(edge_lines[k])

\* C2: in both search modes, a graph with fewer than two nodes or with no
\* connected pair of distinct nodes gives the empty path and metric 0.
C2_EmptyResult ==
  (returned /\ ~some_pair_connected(graph)) => result = <<(<<>>), 0>>

\* C3: no emitted edge has an endpoint whose id contains "i".
C3_NoLoopEndpoint ==
  collapsed =>
    \A k \in 1..Len(edge_lines) :
      ~has_i(edge_lines[k][1]) /\ ~has_i(edge_lines[k][2])

\* C4: two runs of filter_internal_loops on the same text return the same
\* text, character for character.
C4_SameOutputTwice ==
  pc = "recollapsed" => rerun_output = final_output

\* C5, as stated: for any input text, the parser's edge rule applied to the
\* collapsed text gives exactly the expected union.
C5_RoundTripAnyText ==
  collapsed => parse_edges(final_output) = expected_edges(graph_output)

\* C5, amended: for any input text all of whose edge lines lie inside the
\* graph block, the parser's edge rule applied to the collapsed text gives
\* exactly the deduplicated union of the block's direct edges and of every
\* intermediate's neighbor pairs.
C5_RoundTripInBlock ==
  (collapsed /\ edges_all_in_block(graph_output)) =>
    parse_edges(final_output) = expected_edges(graph_output)

\* A text of the amended C5's kind was collapsed: a direct edge and an
\* intermediate with three neighbors, all inside the block.
C5_Witness ==
  /\ collapsed
  /\ edges_all_in_block(graph_output)
  /\ \E k \in 1..Len(block_edges(graph_output)) :
       ~has_i(block_edges(graph_output)[k][1])
         /\ ~has_i(block_edges(graph_output)[k][2])
  /\ Cardinality({k \in 1..Len(block_edges(graph_output)) :
                    has_i(block_edges(graph_output)[k][1])}) >= 2
  /\ Cardinality(parse_edges(final_output)) >= 2

\* C6: on a tree with at least two nodes the edge search returns a path
\* without a repeated node, every step of it an edge of the graph, between
\* two nodes at the greatest distance, with the diameter as its metric.
C6_TreeDiameter ==
  (pc = "edges_returned" /\ is_tree(graph) /\ Len(graph.nodes) >= 2) =>
    LET path == result[1]
    IN /\ Len(path) >= 2
       /\ \A j, k \in 1..Len(path) : j # k => path[j] # path[k]
       /\ \A k \in 1..(Len(path) - 1) : {path[k], path[k + 1]} \in graph.edges
       /\ distance(graph, path[1], path[Len(path)]) = diameter(graph)
       /\ result[2] = diameter(graph)
       /\ result[2] = Len(path) - 1

\* The edge search returned for a tree of diameter 3 whose longest path
\* does not start at the first node of the graph.
C6_Witness ==
  /\ pc = "edges_returned"
  /\ is_tree(graph)
  /\ diameter(graph) = 3
  /\ result[1][1] # graph.nodes[1]

\* C7: the returned path is the shortest path of the earliest visited pair
\* that attains the maximum metric, in both modes.
C7_FirstPairWins ==
  (returned /\ some_pair_connected(graph)) =>
    result = <<first_max.path, first_max.metric>>

\* C8: the collapsed text is the pass-through lines of the input, verbatim
\* and in order, then one line per emitted edge, then one closing brace line
\* that is the only one and the last.
C8_Reassembly ==
  collapsed =>
    LET out == readlines(final_output)
        kept == pass_through(graph_output)
        n == Len(edge_lines)
    IN /\ Len(out) = Len(kept) + 2 * n + 1
       /\ SubSeq(out, 1, Len(kept)) = kept
       /\ \A k \in 1..n : edge_match(emitted_line(out, n, k)) = edge_lines[k]
       /\ is_close_line(out[Len(out)])
       /\ \A k \in 1..(Len(out) - 1) : ~is_close_line(out[k])

\* C9: the emitted edge lines stand in non-decreasing order of
\* (numA, numB), the numbers being the values of the first digit runs of
\* the two endpoints and an endpoint without digits counting as +infinity.
C9_SortedByKey ==
  collapsed =>
    LET out == readlines(final_output)
        n == Len(edge_lines)
    IN /\ Len(out) >= 2 * n + 1
       /\ \A k \in 1..n : edge_match(emitted_line(out, n, k)) = edge_lines[k]
       /\ \A k \in 1..(n - 1) :
            key_leq(edge_match(emitted_line(out, n, k)),
                    edge_match(emitted_line(out, n, k + 1)))

\* Edges were emitted of which one, with an endpoint without digits as its
\* second, stands before an edge of a greater first number.
C9_Witness ==
  /\ collapsed
  /\ \E k \in 1..(Len(edge_lines) - 1) :
       /\ ~first_number(edge_lines[k][2]).digits
       /\ first_number(edge_lines[k][1]).value
            < first_number(edge_lines[k + 1][1]).value

\* C10: the base search returns a non-empty path whenever the graph has an
\* edge, whatever the weight table, and its metric is the sum of the
\* weights over the returned path.
C10_BasesNonEmpty ==
  pc = "bases_returned" =>
    /\ graph.edges # {} => result[1] # <<>>
    /\ result[2] = sum_bases(base_counts, result[1])

====
